---- MODULE Spec2Model ----
(***************************************************************************)
(* Model of src/src/inchPrice.ts: the two-leg arbitrage evaluation         *)
(* (checkArbitrage) and the route extraction helpers (getProtocols,        *)
(* getMaxPart).                                                            *)
(*                                                                         *)
(* Representation of JavaScript values:                                    *)
(*  - null / undefined / strings that may be absent are tagged records     *)
(*    ([type |-> ...]) so that presence tests read the tag;                *)
(*  - a BigNumber, and a decimal string of an integer, is an integer;      *)
(*  - the configuration numbers loanAmount and diffAmount are IEEE-754      *)
(*    doubles; they are counted in halves (3 stands for the number 1.5),   *)
(*    the values for which the double sum of line 81 is exact and prints   *)
(*    as its exact decimal expansion. A sum that is inexact in binary      *)
(*    (0.1 + 0.2 prints "0.30000000000000004") is outside this             *)
(*    representation;                                                      *)
(*  - a decimal string "w.f" is [whole |-> w, fraction |-> <<digits>>].    *)
(* The display strings of a row (padEnd, toFixed, chalk colouring, lines   *)
(* 102-107, 146-156, 181-205, 230-248) are not computed: a row records     *)
(* which fields it carries, its log text and its style.                    *)
(***************************************************************************)
EXTENDS Integers, Sequences, FiniteSets, TLC

VARIABLES
  fromToken,    \* argument of checkArbitrage
  toToken,      \* argument of checkArbitrage
  loanAmount,   \* config, in halves
  diffAmount,   \* config, in halves
  pc,           \* position of checkArbitrage
  amount,       \* const amount (line 76)
  amountDiff,   \* const amountDiff (line 80)
  resultData1,  \* const resultData1 (line 96)
  resultData2,  \* const resultData2 (line 140)
  trace,        \* calls to updateRow and sendRequest, responses, return/throw, in order
  result,       \* the tuple the promise resolved with
  protocolsArg, \* argument of a getProtocols call
  routeRet,     \* <<>> before the call, <<route>> after getProtocols returned
  onehop,       \* argument of a getMaxPart call
  besthop       \* <<>> before the call, <<split>> after getMaxPart returned

vars == <<fromToken, toToken, loanAmount, diffAmount, pc, amount, amountDiff,
          resultData1, resultData2, trace, result,
          protocolsArg, routeRet, onehop, besthop>>

evalVars == <<fromToken, toToken, loanAmount, diffAmount, pc, amount, amountDiff,
              resultData1, resultData2, trace, result>>

extractVars == <<protocolsArg, routeRet, onehop, besthop>>

----------------------------------------------------------------------------
(* Bounds *)

MaxAmount == 21   \* quote amounts returned by the provider: 0..MaxAmount
MaxPart == 3      \* parts of a split: 0..MaxPart
MaxSplits == 3    \* splits per hop: 1..MaxSplits
MaxHops == 2      \* hops per route: 1..MaxHops
MaxAlt == 1       \* alternative routes after the primary one: 0..MaxAlt

----------------------------------------------------------------------------
(* JavaScript values *)

Null == [type |-> "null"]
Undefined == [type |-> "undefined"]
Str(s) == [type |-> "string", value |-> s]

\* String concatenation operand: undefined prints as "undefined".
JsToString(v) == IF v.type = "undefined" THEN "undefined" ELSE v.value

RECURSIVE Pow10(_)
Pow10(n) == IF n = 0 THEN 1 ELSE 10 * Pow10(n - 1)

\* Number.prototype.toString of the double h/2, which is exact in binary:
\* "w" when it is whole, "w.5" otherwise.
NumberToString(h) ==
  [whole |-> h \div 2,
   fraction |-> IF h % 2 = 0 THEN <<>> ELSE <<5>>]

RECURSIVE DigitsToInt(_)
DigitsToInt(ds) ==
  IF ds = <<>> THEN 0
  ELSE 10 * DigitsToInt(SubSeq(ds, 1, Len(ds) - 1)) + ds[Len(ds)]

\* fraction += "0" until it has `decimals` digits
PadZeros(ds, decimals) == ds \o [i \in 1..(decimals - Len(ds)) |-> 0]

\* ethers.utils.parseUnits rejects a fraction longer than `decimals`.
parseUnitsThrows(value, decimals) == Len(value.fraction) > decimals

\* ethers.utils.parseUnits(value, decimals): whole * 10^decimals + padded fraction
parseUnits(value, decimals) ==
  value.whole * Pow10(decimals) + DigitsToInt(PadZeros(value.fraction, decimals))

----------------------------------------------------------------------------
(* Collaborators outside src/: token registry, config, quote provider *)

chainId == 137
protocols == "POLYGON_QUICKSWAP,POLYGON_SUSHISWAP"

\* Registry tokens: decimals are never fewer than the fraction digits of the
\* configured amounts, so parseUnits accepts loanAmount and loanAmount + diffAmount.
Tokens ==
  { [symbol |-> s, address |-> "0x" \o s, decimals |-> d] :
      s \in {"DAI", "USDC"}, d \in {1, 2} }

\* loanAmount and diffAmount in halves: 1.0 or 1.5, and 0 or 0.5
LoanAmounts == {2, 3}
DiffAmounts == {0, 1}

TokenAt(address, a, b) == IF a.address = address THEN a ELSE b

----------------------------------------------------------------------------
(* Protocol-split structures: inputs *)

ProtocolName(k) == "PROTOCOL_" \o ToString(k)
HopToken(k) == "0xTOKEN_" \o ToString(k % 2)

\* A hop whose j-th split has the j-th part; names are distinct within a hop.
Hop(parts, base) ==
  [j \in 1..Len(parts) |->
     [name |-> ProtocolName(base + j),
      part |-> parts[j],
      toTokenAddress |-> HopToken(base + j)]]

PartSeqs == UNION { [1..n -> 0..MaxPart] : n \in 1..MaxSplits }

RECURSIVE SumParts(_)
SumParts(ps) == IF ps = <<>> THEN 0 ELSE ps[1] + SumParts(Tail(ps))

\* Part sequences that split the whole volume: positive shares adding up to MaxPart.
WholePartSeqs ==
  { ps \in PartSeqs : SumParts(ps) = MaxPart /\ \A j \in 1..Len(ps) : ps[j] > 0 }

Hops == { Hop(ps, 0) : ps \in PartSeqs }
WholeHops == { Hop(ps, 0) : ps \in WholePartSeqs }
AltHops == { Hop(ps, MaxSplits) : ps \in WholePartSeqs }

Routes == UNION { [1..n -> WholeHops] : n \in 1..MaxHops }
AltRouteSeqs == UNION { [1..n -> { <<h>> : h \in AltHops }] : n \in 0..MaxAlt }

\* IProtocol[][][]: the primary route followed by alternative routes.
Trees == { <<r>> \o alts : r \in Routes, alts \in AltRouteSeqs }

----------------------------------------------------------------------------
(* Route extraction, lines 250-273 *)

\* Mutant of ReplacesMax: a later split with an equal part replaces the maximum.
ReplacesMax_OrEqual(maxPart, part) == maxPart <= part

\* line 267: if (maxPart < protocol.part)
ReplacesMax(maxPart, part) == maxPart < part

\* lines 264-271: the forEach loop over the splits, carrying (maxPart, key);
\* indexes are 1-based here, so key starts at 1 for the code's 0.
RECURSIVE forEachSplit(_, _, _, _)
forEachSplit(hop, index, maxPart, key) ==
  IF index > Len(hop) THEN key
  ELSE IF ReplacesMax(maxPart, hop[index].part)
       THEN forEachSplit(hop, index + 1, hop[index].part, index)
       ELSE forEachSplit(hop, index + 1, maxPart, key)

\* lines 263-273
getMaxPart(hop) == hop[forEachSplit(hop, 1, 0, 1)]

\* Mutant of MainRoute: the last alternative route is read instead of the first.
MainRoute_Last(tree) == tree[Len(tree)]

\* line 252: const mainRoute = protocols[0]
MainRoute(tree) == tree[1]

\* lines 255-258: the step pushed for one hop
RouteStep(hop) ==
  [name |-> getMaxPart(hop).name,
   toTokenAddress |-> getMaxPart(hop).toTokenAddress]

\* lines 253-259: for (const onehop of mainRoute) route.push(...)
RECURSIVE pushHops(_, _, _)
pushHops(mainRoute, i, route) ==
  IF i > Len(mainRoute) THEN route
  ELSE pushHops(mainRoute, i + 1, Append(route, RouteStep(mainRoute[i])))

\* lines 250-261
getProtocols(tree) == pushHops(MainRoute(tree), 1, <<>>)

----------------------------------------------------------------------------
(* Quote provider (sendRequest, ./utils/request): what a request may resolve to *)

\* resultData.protocols, typed IProtocol[][][]
ProtocolsValue(tree) == [type |-> "IProtocol[][][]", value |-> tree]

SimpleTree == << << Hop(<<MaxPart>>, 0) >> >>
SplitTree ==
  << << Hop(<<1, MaxPart - 1>>, 0), Hop(<<MaxPart>>, 0) >>,
     << Hop(<<MaxPart>>, MaxSplits) >> >>
QuoteTrees == {SimpleTree, SplitTree}

\* A successful quote echoes the request and adds toTokenAmount and protocols.
QuoteSuccesses(url, a, b) ==
  { [isAxiosError |-> FALSE,
     fromToken |-> TokenAt(url.fromTokenAddress, a, b),
     toToken |-> TokenAt(url.toTokenAddress, a, b),
     fromTokenAmount |-> url.amount,
     toTokenAmount |-> x,
     protocols |-> ProtocolsValue(t)] : x \in 0..MaxAmount, t \in QuoteTrees }

ErrorResponse(data) ==
  [type |-> "object", status |-> 400, statusText |-> "Bad Request", data |-> data]

\* no response (transport failure); response with data.error; response whose
\* data carries no error field; response that carries no data
NoResponseError == [isAxiosError |-> TRUE, response |-> Undefined]
DetailError ==
  [isAxiosError |-> TRUE,
   response |-> ErrorResponse([type |-> "object",
                               error |-> Str("insufficient liquidity")])]
NoErrorFieldError ==
  [isAxiosError |-> TRUE,
   response |-> ErrorResponse([type |-> "object", error |-> Undefined])]
NoDataError == [isAxiosError |-> TRUE, response |-> ErrorResponse(Undefined)]

QuoteErrors == {NoResponseError, DetailError, NoErrorFieldError, NoDataError}

----------------------------------------------------------------------------
(* checkArbitrage, lines 50-228 *)

\* lines 20-41: the URL, kept as its parameters
get1inchQuoteCallUrl(cid, fromTokenAddress, toTokenAddress, amt) ==
  [chainId |-> cid,
   fromTokenAddress |-> fromTokenAddress,
   toTokenAddress |-> toTokenAddress,
   amount |-> amt,
   mainRouteParts |-> 50,
   protocols |-> protocols]

\* lines 76-79
LoanUnits(loan, decimals) == parseUnits(NumberToString(loan), decimals)

\* lines 80-83: loan + diff is the double sum, exact for halves
ThresholdUnits(loan, diff, decimals) ==
  parseUnits(NumberToString(loan + diff), decimals)

\* lines 85-90
FirstCallUrl(from, to, amt) ==
  get1inchQuoteCallUrl(chainId, from.address, to.address, amt)

\* Mutant of SecondCallUrl: the amount goes through whole units of toToken.
SecondCallUrl_Rounded(from, to, data1) ==
  get1inchQuoteCallUrl(chainId, to.address, from.address,
    (data1.toTokenAmount \div Pow10(to.decimals)) * Pow10(to.decimals))

\* lines 128-134
SecondCallUrl(from, to, data1) ==
  get1inchQuoteCallUrl(chainId, to.address, from.address, data1.toTokenAmount)

\* Mutant of IsProfitable: the comparison is not strict.
IsProfitable_NotStrict(threshold, data2) == threshold <= data2.toTokenAmount

\* lines 177-179
IsProfitable(threshold, data2) == threshold < data2.toTokenAmount

\* e.response.data.error is read of an undefined data: TypeError
ErrorLogThrows(e) ==
  /\ e.response.type # "undefined"
  /\ e.response.data.type = "undefined"

\* lines 109-117 and 158-166
ErrorLog(e) ==
  IF e.response.type # "undefined"
  THEN ToString(e.response.status) \o ": " \o e.response.statusText
       \o " (" \o JsToString(e.response.data.error) \o ")"
  ELSE ""

UpdateRow(site, fields, log, color) ==
  [type |-> "updateRow", site |-> site, fields |-> fields, log |-> log,
   color |-> color]
SendRequest(leg, url) == [type |-> "sendRequest", leg |-> leg, url |-> url]
Response(leg) == [type |-> "response", leg |-> leg]
Return == [type |-> "return"]
Throw == [type |-> "throw"]

\* lines 65-72
ResetRow == UpdateRow("reset", {"log"}, "", "white")

\* lines 92-94 and 136-138 (the arrow and the ellipsis are written in ASCII)
ProgressRow(site, from, to) ==
  UpdateRow(site, {"log"},
            "Getting quote for " \o from.symbol \o " -> " \o to.symbol \o "...",
            "undefined")

\* lines 100-122 and 144-171
ErrorRow(site, e) ==
  UpdateRow(site, {"fromToken", "toToken", "fromAmount", "log"}, ErrorLog(e), "red")

\* lines 196-212: color is isProfitable ?? "green", i.e. the boolean itself
ResultRow(isProfitable) ==
  UpdateRow("result",
            {"fromToken", "toToken", "fromAmount", "toAmount", "difference",
             "percentage", "log"},
            "", IF isProfitable THEN "true" ELSE "false")

\* a formatted number: toFixed / chalk text, not computed
DisplayString == [type |-> "string"]

\* lines 124 and 173
FailureResult == <<FALSE, Null, Null>>

\* an IRoute[] value
RouteValue(route) == [type |-> "IRoute[]", value |-> route]

\* Mutant of SuccessResult: the routes are extracted before they are returned.
SuccessResult_Extracted(isProfitable, data1, data2) ==
  <<isProfitable,
    RouteValue(getProtocols(data1.protocols.value)),
    RouteValue(getProtocols(data2.protocols.value)),
    DisplayString, DisplayString, DisplayString>>

\* lines 220-227
SuccessResult(isProfitable, data1, data2) ==
  <<isProfitable, data1.protocols, data2.protocols,
    DisplayString, DisplayString, DisplayString>>

----------------------------------------------------------------------------
(* Actions of one evaluation *)

\* lines 64-96: from the call to the first await
CheckArbitrageCall ==
  /\ pc = "called"
  /\ LET decimals == fromToken.decimals
         throws == \/ parseUnitsThrows(NumberToString(loanAmount), decimals)
                   \/ parseUnitsThrows(NumberToString(loanAmount + diffAmount),
                                       decimals)
         amt == LoanUnits(loanAmount, decimals)
     IN IF throws
        THEN /\ trace' = <<ResetRow, Throw>>
             /\ pc' = "thrown"
             /\ UNCHANGED <<amount, amountDiff>>
        ELSE /\ amount' = amt
             /\ amountDiff' = ThresholdUnits(loanAmount, diffAmount, decimals)
             /\ trace' = <<ResetRow,
                           ProgressRow("progress1", fromToken, toToken),
                           SendRequest(1, FirstCallUrl(fromToken, toToken, amt))>>
             /\ pc' = "awaitLeg1"
  /\ UNCHANGED <<fromToken, toToken, loanAmount, diffAmount, resultData1,
                 resultData2, result>>
  /\ UNCHANGED extractVars

\* the url of the request a leg is waiting on
PendingUrl(leg) ==
  LET i == CHOOSE k \in 1..Len(trace) :
             trace[k].type = "sendRequest" /\ trace[k].leg = leg
  IN trace[i].url

\* lines 96-125: the first request resolves to an error
Leg1Failed ==
  /\ pc = "awaitLeg1"
  /\ \E e \in QuoteErrors :
       /\ resultData1' = e
       /\ IF ErrorLogThrows(e)
          THEN /\ trace' = trace \o <<Response(1), Throw>>
               /\ pc' = "thrown"
               /\ UNCHANGED result
          ELSE /\ trace' = trace \o <<Response(1), ErrorRow("error1", e), Return>>
               /\ result' = FailureResult
               /\ pc' = "returned"
  /\ UNCHANGED <<fromToken, toToken, loanAmount, diffAmount, amount, amountDiff,
                 resultData2>>
  /\ UNCHANGED extractVars

\* lines 96-97, 127-140: the first request resolves to a quote
Leg1Succeeded ==
  /\ pc = "awaitLeg1"
  /\ \E r \in QuoteSuccesses(PendingUrl(1), fromToken, toToken) :
       /\ resultData1' = r
       /\ trace' = trace \o <<Response(1),
                              ProgressRow("progress2", toToken, fromToken),
                              SendRequest(2, SecondCallUrl(fromToken, toToken, r))>>
  /\ pc' = "awaitLeg2"
  /\ UNCHANGED <<fromToken, toToken, loanAmount, diffAmount, amount, amountDiff,
                 resultData2, result>>
  /\ UNCHANGED extractVars

\* lines 140-174: the second request resolves to an error
Leg2Failed ==
  /\ pc = "awaitLeg2"
  /\ \E e \in QuoteErrors :
       /\ resultData2' = e
       /\ IF ErrorLogThrows(e)
          THEN /\ trace' = trace \o <<Response(2), Throw>>
               /\ pc' = "thrown"
               /\ UNCHANGED result
          ELSE /\ trace' = trace \o <<Response(2), ErrorRow("error2", e), Return>>
               /\ result' = FailureResult
               /\ pc' = "returned"
  /\ UNCHANGED <<fromToken, toToken, loanAmount, diffAmount, amount, amountDiff,
                 resultData1>>
  /\ UNCHANGED extractVars

\* lines 140-141, 175-228: the second request resolves to a quote
Leg2Succeeded ==
  /\ pc = "awaitLeg2"
  /\ \E r \in QuoteSuccesses(PendingUrl(2), fromToken, toToken) :
       LET isProfitable == IsProfitable(amountDiff, r)
       IN /\ resultData2' = r
          /\ trace' = trace \o <<Response(2), ResultRow(isProfitable), Return>>
          /\ result' = SuccessResult(isProfitable, resultData1, r)
  /\ pc' = "returned"
  /\ UNCHANGED <<fromToken, toToken, loanAmount, diffAmount, amount, amountDiff,
                 resultData1>>
  /\ UNCHANGED extractVars

EvalIdle ==
  /\ fromToken = Null /\ toToken = Null
  /\ loanAmount = 0 /\ diffAmount = 0
  /\ pc = "idle"
  /\ amount = 0 /\ amountDiff = 0
  /\ resultData1 = Undefined /\ resultData2 = Undefined
  /\ trace = <<>>
  /\ result = <<>>

Init ==
  /\ fromToken \in Tokens
  /\ toToken \in Tokens
  /\ fromToken.symbol # toToken.symbol
  /\ loanAmount \in LoanAmounts
  /\ diffAmount \in DiffAmounts
  /\ pc = "called"
  /\ amount = 0 /\ amountDiff = 0
  /\ resultData1 = Undefined /\ resultData2 = Undefined
  /\ trace = <<>>
  /\ result = <<>>
  /\ protocolsArg = <<>> /\ routeRet = <<>>
  /\ onehop = <<>> /\ besthop = <<>>

Next ==
  \/ CheckArbitrageCall
  \/ Leg1Failed
  \/ Leg1Succeeded
  \/ Leg2Failed
  \/ Leg2Succeeded

Spec == Init /\ [][Next]_vars

----------------------------------------------------------------------------
(* Route extraction applied to bounded inputs *)

CallGetMaxPart ==
  /\ besthop = <<>>
  /\ besthop' = <<getMaxPart(onehop)>>
  /\ UNCHANGED <<protocolsArg, routeRet, onehop>>
  /\ UNCHANGED evalVars

InitGetMaxPart ==
  /\ EvalIdle
  /\ protocolsArg = <<>> /\ routeRet = <<>>
  /\ onehop \in Hops
  /\ besthop = <<>>

SpecGetMaxPart == InitGetMaxPart /\ [][CallGetMaxPart]_vars

CallGetProtocols ==
  /\ routeRet = <<>>
  /\ routeRet' = <<getProtocols(protocolsArg)>>
  /\ UNCHANGED <<protocolsArg, onehop, besthop>>
  /\ UNCHANGED evalVars

InitGetProtocols ==
  /\ EvalIdle
  /\ protocolsArg \in Trees
  /\ routeRet = <<>>
  /\ onehop = <<>> /\ besthop = <<>>

SpecGetProtocols == InitGetProtocols /\ [][CallGetProtocols]_vars

----------------------------------------------------------------------------
(* Properties *)

IsQuote(d) == "toTokenAmount" \in DOMAIN d
IsError(d) == "isAxiosError" \in DOMAIN d /\ d.isAxiosError
BothSucceeded == pc = "returned" /\ IsQuote(resultData1) /\ IsQuote(resultData2)
Finished == pc \in {"returned", "thrown"}

Requests(leg) ==
  { k \in 1..Len(trace) : trace[k].type = "sendRequest" /\ trace[k].leg = leg }
Responses(leg) ==
  { k \in 1..Len(trace) : trace[k].type = "response" /\ trace[k].leg = leg }
Updates == { k \in 1..Len(trace) : trace[k].type = "updateRow" }
UpdatesAt(site) == { k \in Updates : trace[k].site = site }
AllRequests == { k \in 1..Len(trace) : trace[k].type = "sendRequest" }
AllResponses == { k \in 1..Len(trace) : trace[k].type = "response" }

\* C1: when both quote requests succeeded, the returned isProfitable is TRUE
\* exactly when (loanAmount + diffAmount), scaled to fromToken's decimals, is
\* strictly below leg 2's toTokenAmount (amounts in halves: both sides times 2).
C1_ProfitableIffAboveThreshold ==
  BothSucceeded =>
    (result[1] <=>
       (loanAmount + diffAmount) * Pow10(fromToken.decimals)
         < 2 * resultData2.toTokenAmount)

\* C1 witness: both legs succeeded, leg 2 returned exactly the threshold, and
\* the evaluation returned isProfitable = FALSE.
C1_Witness ==
  /\ BothSucceeded
  /\ (loanAmount + diffAmount) * Pow10(fromToken.decimals)
       = 2 * resultData2.toTokenAmount
  /\ result[1] = FALSE

\* C5: a leg-2 request is issued only after the leg-1 response, goes from
\* toToken to fromToken (leg 1 reversed) and carries exactly leg 1's toTokenAmount.
C5_Leg2RequestFromLeg1 ==
  \A k \in Requests(2) :
    /\ \E j \in Responses(1) : j < k
    /\ \E i \in Requests(1) :
         /\ i < k
         /\ trace[k].url.fromTokenAddress = trace[i].url.toTokenAddress
         /\ trace[k].url.toTokenAddress = trace[i].url.fromTokenAddress
    /\ trace[k].url.fromTokenAddress = toToken.address
    /\ trace[k].url.toTokenAddress = fromToken.address
    /\ trace[k].url.amount = resultData1.toTokenAmount

\* C5 witness: leg 2 was requested with an amount that a conversion through
\* the token's decimals would not preserve, between tokens of different decimals.
C5_Witness ==
  /\ Requests(2) # {}
  /\ resultData1.toTokenAmount % 10 # 0
  /\ fromToken.decimals # toToken.decimals
  /\ \A k \in Requests(2) : trace[k].url.amount = resultData1.toTokenAmount

FirstMax(hop, k) ==
  /\ \A j \in 1..Len(hop) : hop[j].part <= hop[k].part
  /\ \A j \in 1..(k - 1) : hop[j].part < hop[k].part

\* C7: for a non-empty hop getMaxPart returns the split with the largest part,
\* and among equal largest parts the one at the lowest index.
C7_MaxPartFirstOccurrence ==
  besthop # <<>> =>
    \E k \in 1..Len(onehop) : FirstMax(onehop, k) /\ besthop[1] = onehop[k]

\* C7 witness: parts shaped like [30, 70, 70]: the largest part occurs at the
\* second and third split, and the second split was returned.
C7_Witness ==
  /\ besthop # <<>>
  /\ Len(onehop) = 3
  /\ onehop[1].part < onehop[2].part
  /\ onehop[2].part = onehop[3].part
  /\ besthop[1] = onehop[2]
  /\ besthop[1] # onehop[3]

\* C8: the route of getProtocols has one step per hop of protocols[0], in hop
\* order, each with the name and toTokenAddress of that hop's selected split;
\* replacing the alternative routes leaves the output unchanged.
C8_RouteFromPrimaryOnly ==
  routeRet # <<>> =>
    LET route == routeRet[1]
        main == protocolsArg[1]
    IN /\ Len(route) = Len(main)
       /\ \A i \in 1..Len(main) :
            \E k \in 1..Len(main[i]) :
              /\ FirstMax(main[i], k)
              /\ route[i] = [name |-> main[i][k].name,
                             toTokenAddress |-> main[i][k].toTokenAddress]
       /\ \A alts \in AltRouteSeqs : getProtocols(<<main>> \o alts) = route

\* C8 witness: a tree with an alternative route carrying other data, a primary
\* route of several hops, one of them split with its largest part not first.
C8_Witness ==
  /\ routeRet # <<>>
  /\ Len(protocolsArg) >= 2
  /\ Len(protocolsArg[1]) >= 2
  /\ \E i \in 1..Len(protocolsArg[1]) :
       /\ Len(protocolsArg[1][i]) >= 2
       /\ routeRet[1][i].name # protocolsArg[1][i][1].name
  /\ routeRet[1][1].name # protocolsArg[2][1][1].name

\* C9 as stated: when both legs succeed, the returned outbound and return
\* routes are the routes extracted from leg 1's and leg 2's protocols, one
\* RouteStep per hop of each primary route.
C9_RoutesAreExtracted ==
  BothSucceeded =>
    /\ result[2] = RouteValue(getProtocols(resultData1.protocols.value))
    /\ result[3] = RouteValue(getProtocols(resultData2.protocols.value))

\* C9 amended: when both legs succeed, the second and third elements of the
\* returned tuple are leg 1's and leg 2's protocols structures themselves, the
\* whole nested IProtocol[][][] with its alternative routes, not extracted.
C9_RoutesAreRawProtocols ==
  BothSucceeded =>
    /\ result[2] = resultData1.protocols
    /\ result[3] = resultData2.protocols
    /\ result[2].type = "IProtocol[][][]"
    /\ result[3].type = "IProtocol[][][]"

\* C9 witness: both legs succeeded with different structures, leg 1's having
\* an alternative route and a two-hop primary route, and both were returned whole.
C9_Witness ==
  /\ BothSucceeded
  /\ resultData1.protocols # resultData2.protocols
  /\ Len(result[2].value) = 2
  /\ Len(result[2].value[1]) = 2
  /\ Len(result[2].value[1][1]) = 2
  /\ result[3] = resultData2.protocols

WellFormed(r) ==
  /\ Len(r) \in {3, 6}
  /\ r[1] \in BOOLEAN
  /\ r[2].type \in {"null", "IProtocol[][][]"}
  /\ r[3].type \in {"null", "IProtocol[][][]"}
  /\ Len(r) = 6 => \A i \in 4..6 : r[i].type = "string"

\* C2 as stated: once the leg-1 request has failed, checkArbitrage has returned
\* [false, null, null] and no leg-2 request was issued.
C2_Leg1FailureShortCircuits ==
  IsError(resultData1) =>
    /\ pc = "returned"
    /\ result = FailureResult
    /\ Requests(2) = {}

\* C3 as stated: once leg 1 has succeeded and the leg-2 request has failed,
\* checkArbitrage has returned [false, null, null], and each leg's request was
\* issued at most once.
C3_Leg2FailureNoRetry ==
  /\ Cardinality(Requests(1)) <= 1
  /\ Cardinality(Requests(2)) <= 1
  /\ Cardinality(AllRequests) <= 2
  /\ (IsQuote(resultData1) /\ IsError(resultData2)) =>
       /\ pc = "returned"
       /\ result = FailureResult

\* C4 as stated: whatever the two quote requests resolved to, a finished
\* evaluation has returned a well-formed tuple and has not thrown.
C4_AlwaysReturnsTuple ==
  Finished =>
    /\ pc = "returned"
    /\ trace[Len(trace)].type = "return"
    /\ WellFormed(result)

FailedLeg == IF IsError(resultData1) THEN 1 ELSE 2
FailedError == IF IsError(resultData1) THEN resultData1 ELSE resultData2
ErrorSite == IF IsError(resultData1) THEN "error1" ELSE "error2"

\* C6 as stated: when a leg has failed, a red update was handed to the sink
\* whose log is "{status}: {statusText} ({error message})" when the error has a
\* response and "" when it has none.
C6_FailureLogFormat ==
  (IsError(resultData1) \/ IsError(resultData2)) =>
    \E k \in UpdatesAt(ErrorSite) :
      /\ trace[k].color = "red"
      /\ FailedError = NoResponseError => trace[k].log = ""
      /\ FailedError = DetailError =>
           trace[k].log = "400: Bad Request (insufficient liquidity)"
      /\ FailedError.response.type # "undefined" =>
           \E msg \in {"insufficient liquidity", "undefined", ""} :
             trace[k].log = "400: Bad Request (" \o msg \o ")"

LastResponse == CHOOSE k \in AllResponses : \A j \in AllResponses : j <= k

\* C10 as stated: the first update is the reset and precedes the leg-1 request;
\* each leg's progress update precedes that leg's request; and a finished
\* evaluation emitted exactly one final update after the last response (red
\* error row on a failed leg, result row otherwise), with nothing but the
\* return after it.
C10_UpdateOrder ==
  /\ trace # <<>> =>
       /\ trace[1] = ResetRow
       /\ \A k \in AllRequests : 1 < k
  /\ \A k \in Requests(1) : \E j \in UpdatesAt("progress1") : j < k
  /\ \A k \in Requests(2) : \E j \in UpdatesAt("progress2") : j < k
  /\ Finished =>
       /\ AllResponses # {}
       /\ Cardinality({ k \in Updates : k > LastResponse }) = 1
       /\ \A k \in Updates : k > LastResponse =>
            /\ k = Len(trace) - 1
            /\ trace[k].site =
                 IF IsError(resultData1) \/ IsError(resultData2)
                 THEN ErrorSite ELSE "result"
            /\ (trace[k].site = ErrorSite) => trace[k].color = "red"
       /\ trace[Len(trace)].type = "return"

====
